---- MODULE Spec2Model ----
\* A model of package errors (errors with stack traces): the CommonError
\* object, its constructors New / Wrap / WrapPrefix / Errorf, the helpers
\* Unwrap and Is, and the methods Error and StackFrames.
EXTENDS Integers, Sequences, FiniteSets, TLC

\* ---------------------------------------------------------------- bounds

\* How many CommonError objects a run allocates.
MaxObjs == 2
\* How many plain error objects (errors.New / fmt.Errorf results) a run holds.
MaxErrs == 3
\* How many characters of prefix, over all its errors, a run builds.
MaxPrefixLen == 7

\* The value MaxStackDepth is initialised with.
DefaultMaxStackDepth == 50

\* ---------------------------------------------------------------- values

\* An interface value handed to the package. k is its dynamic type:
\*   "nil"    the nil interface,
\*   "val"    a value that is not an error (i names it),
\*   "plain"  a pointer to a plain error object (i indexes errs),
\*   "ann"    a non-nil *CommonError (i indexes heap),
\*   "nilptr" a nil *CommonError.
Nil == [k |-> "nil", i |-> 0]
NilPtr == [k |-> "nilptr", i |-> 0]
Val(v) == [k |-> "val", i |-> v]
Plain(n) == [k |-> "plain", i |-> n]
Ann(n) == [k |-> "ann", i |-> n]

\* Text is a sequence of characters.
Sep == <<":", " ">>
NilText == <<"<", "n", "i", "l", ">">>
ValText == <<"v">>
ClientMsg == <<"m">>

\* The frames of the client that calls into the package, innermost first.
ClientStack == <<"client", "main">>

\* A []StackFrame is the address of its backing array in slices; the nil
\* slice is address 0.
NilFrames == 0

\* How many goroutines read one error at once (SpecConc).
MaxThreads == 2

VARIABLES
    heap,           \* the CommonError objects, by address
    errs,           \* the plain error objects, by address: their messages
    MaxStackDepth,  \* the package variable
    slices,         \* the []StackFrame backing arrays, by address
    last,           \* the last call: its arguments and what it returned
    thr             \* the goroutines of SpecConc: where each is in its call

vars == <<heap, errs, MaxStackDepth, slices, last, thr>>

NoCall ==
    [op |-> "none", a |-> Nil, b |-> Nil, pfx |-> <<>>, skip |-> 0,
     ret |-> Nil, res |-> "none", str |-> <<>>, msg |-> <<>>,
     was |-> NilFrames, fr |-> NilFrames, nres |-> 0, panic |-> FALSE]

\* ---------------------------------------------------------------- helpers

Max(a, b) == IF a > b THEN a ELSE b
Min(a, b) == IF a < b THEN a ELSE b

Drop(s, n) == SubSeq(s, Min(n, Len(s)) + 1, Len(s))
Take(s, n) == SubSeq(s, 1, Min(n, Len(s)))

StartsWith(s, p) == Len(p) <= Len(s) /\ SubSeq(s, 1, Len(p)) = p
EndsWith(s, p) == Len(p) <= Len(s) /\ SubSeq(s, Len(s) - Len(p) + 1, Len(s)) = p

\* fmt.Sprintf("%s: %s", a, b)
Sprintf2(a, b) == a \o Sep \o b

\* fmt.Sprintf("%v", e) of a value that is not an error.
FormatV(e) == IF e.k = "nil" THEN NilText ELSE ValText

\* The type switch `case error:`: a nil *CommonError in an interface is a
\* non-nil error value; the nil interface matches no case.
IsError(e) == e.k \in {"plain", "ann", "nilptr"}

\* The type switch `case *CommonError:` / the assertion e.(*CommonError).
IsCommonError(e) == e.k \in {"ann", "nilptr"}

\* runtime.Callers(skip, buf) with len(buf) = n on the call stack `live`
\* (innermost first, live[1] is runtime.Callers itself): a skip below zero
\* skips nothing.
Callers(skip, n, live) == Take(Drop(live, Max(skip, 0)), n)

\* ---------------------------------------------------------------- the code

\* What a call gives back: whether it panicked, the value it returned, and
\* the objects as it leaves them.
Result(p, r, h, es) == [panic |-> p, ret |-> r, heap |-> h, errs |-> es]

\* The switch of New / Wrap / Unwrap on a value that is no *CommonError:
\* an error is used as it is, anything else goes through fmt.Errorf("%v", e),
\* which allocates a plain error.
ToError(e) ==
    IF IsError(e)
    THEN [err |-> e, errs |-> errs]
    ELSE [err |-> Plain(Len(errs) + 1), errs |-> Append(errs, FormatV(e))]

\* stack := make([]uintptr, MaxStackDepth); length := runtime.Callers(skip, stack[:]);
\* stack[:length]
CaptureFixedDepth(skip, live) == Callers(skip, DefaultMaxStackDepth, live)
Capture(skip, live) == Callers(skip, MaxStackDepth, live)

\* &CommonError{Err: err, stack: stack[:length]}
Construct(err, st) == [Err |-> err, stack |-> st, frames |-> NilFrames, prefix |-> <<>>]

\* The part New and Wrap share: make panics on a negative length.
Build(c, skip, live) ==
    IF MaxStackDepth < 0
    THEN Result(TRUE, Nil, heap, c.errs)
    ELSE Result(FALSE, Ann(Len(heap) + 1),
                Append(heap, Construct(c.err, Capture(skip, live))), c.errs)

NewShallowCopy(e, callers) ==
    IF e.k = "ann"
    THEN Build([err |-> heap[e.i].Err, errs |-> errs], 2,
               <<"runtime.Callers", "errors.New">> \o callers)
    ELSE Build(ToError(e), 2, <<"runtime.Callers", "errors.New">> \o callers)
New(e, callers) ==
    Build(ToError(e), 2, <<"runtime.Callers", "errors.New">> \o callers)

WrapAlwaysNew(e, skip, callers) ==
    Build(ToError(e), 2 + skip, <<"runtime.Callers", "errors.Wrap">> \o callers)
Wrap(e, skip, callers) ==
    IF IsCommonError(e)
    THEN Result(FALSE, e, heap, errs)
    ELSE Build(ToError(e), 2 + skip, <<"runtime.Callers", "errors.Wrap">> \o callers)

UnwrapDeep(e) ==
    LET RECURSIVE inner(_)
        inner(x) == IF x.k = "ann" THEN inner(heap[x.i].Err) ELSE x
    IN  IF e.k = "nilptr" THEN Result(TRUE, Nil, heap, errs)
        ELSE IF IsError(e) THEN Result(FALSE, inner(e), heap, errs)
        ELSE Result(FALSE, Plain(Len(errs) + 1), heap, Append(errs, FormatV(e)))
Unwrap(e) ==
    IF e.k = "ann" THEN Result(FALSE, heap[e.i].Err, heap, errs)
    ELSE IF e.k = "nilptr" THEN Result(TRUE, Nil, heap, errs)
    ELSE IF IsError(e) THEN Result(FALSE, e, heap, errs)
    ELSE Result(FALSE, Plain(Len(errs) + 1), heap, Append(errs, FormatV(e)))

WrapPrefixOverwrite(e, prefix, skip, callers) ==
    LET w == Wrap(e, skip, <<"errors.WrapPrefix">> \o callers)
    IN  IF w.panic THEN w
        ELSE IF w.ret.k = "nilptr" THEN Result(TRUE, Nil, w.heap, w.errs)
        ELSE Result(FALSE, w.ret, [w.heap EXCEPT ![w.ret.i].prefix = prefix], w.errs)
WrapPrefix(e, prefix, skip, callers) ==
    LET w == Wrap(e, skip, <<"errors.WrapPrefix">> \o callers)
    IN  IF w.panic THEN w
        ELSE IF w.ret.k = "nilptr" THEN Result(TRUE, Nil, w.heap, w.errs)
        ELSE LET old == w.heap[w.ret.i].prefix
                 new == IF old # <<>> THEN Sprintf2(prefix, old) ELSE prefix
             IN  Result(FALSE, w.ret, [w.heap EXCEPT ![w.ret.i].prefix = new], w.errs)

\* Is(e, original): "true", "false", or "panic" where the code reads the
\* Err field through a nil *CommonError.
IsSameObject(e, original) == IF e = original THEN "true" ELSE "false"
RECURSIVE Is(_, _)
Is(e, original) ==
    IF e = original THEN "true"
    ELSE IF IsCommonError(e)
         THEN IF e.k = "nilptr" THEN "panic" ELSE Is(heap[e.i].Err, original)
    ELSE IF IsCommonError(original)
         THEN IF original.k = "nilptr" THEN "panic" ELSE Is(e, heap[original.i].Err)
    ELSE "false"

\* Errorf(format, a...) == Wrap(fmt.Errorf(format, a...), 1)
Errorf(msg, callers) ==
    LET es == Append(errs, msg)
        w == Wrap(Plain(Len(es)), 1, <<"errors.Errorf">> \o callers)
    IN  Result(w.panic, w.ret, w.heap, es)

\* e.Error() of an error value e, in the objects h and es: [panic, str].
\* (*CommonError).Error reads err.Err, which panics through a nil pointer.
RECURSIVE ErrorIn(_, _, _)
ErrorIn(h, es, e) ==
    IF e.k = "plain" THEN [panic |-> FALSE, str |-> es[e.i]]
    ELSE IF e.k = "ann"
         THEN LET m == ErrorIn(h, es, h[e.i].Err)
              IN  IF m.panic THEN m
                  ELSE IF h[e.i].prefix # <<>>
                       THEN [panic |-> FALSE, str |-> Sprintf2(h[e.i].prefix, m.str)]
                       ELSE m
    ELSE [panic |-> TRUE, str |-> <<>>]

Error(e) == ErrorIn(heap, errs, e)

\* The frame resolver: the record resolved for one captured address.
NewStackFrame(pc) == [address |-> pc, function |-> pc, resolved |-> TRUE]
\* The zero StackFrame a fresh make([]StackFrame, n) holds.
ZeroFrame == [address |-> "0", function |-> "", resolved |-> FALSE]

Resolved(st) == [i \in 1..Len(st) |-> NewStackFrame(st[i])]

\* err.StackFrames(): [frames: the slice returned, heap, slices, nres: how
\* many addresses the call resolved].
StackFramesNoCache(n) ==
    [frames |-> Len(slices) + 1,
     heap |-> [heap EXCEPT ![n].frames = Len(slices) + 1],
     slices |-> Append(slices, Resolved(heap[n].stack)),
     nres |-> Len(heap[n].stack)]
StackFrames(n) ==
    IF heap[n].frames = NilFrames
    THEN [frames |-> Len(slices) + 1,
          heap |-> [heap EXCEPT ![n].frames = Len(slices) + 1],
          slices |-> Append(slices, Resolved(heap[n].stack)),
          nres |-> Len(heap[n].stack)]
    ELSE [frames |-> heap[n].frames, heap |-> heap, slices |-> slices, nres |-> 0]

\* ---------------------------------------------------------------- calls

\* The values a client can hand to the package.
Errors == {NilPtr} \cup {Plain(i) : i \in DOMAIN errs} \cup {Ann(i) : i \in DOMAIN heap}
Values == {Nil, Val(1)} \cup Errors

\* The characters of prefix the objects h hold.
RECURSIVE PrefixChars(_)
PrefixChars(h) ==
    IF h = <<>> THEN 0 ELSE Len(h[Len(h)].prefix) + PrefixChars(SubSeq(h, 1, Len(h) - 1))

\* A call stays within the bounds of the run.
Fits(r) ==
    /\ Len(r.heap) <= MaxObjs
    /\ Len(r.errs) <= MaxErrs
    /\ PrefixChars(r.heap) <= MaxPrefixLen

\* A call that panics leaves what it allocated before and returns nothing;
\* the client recovers and goes on.
Finish(r, call) ==
    /\ Fits(r)
    /\ heap' = r.heap
    /\ errs' = r.errs
    /\ last' = [call EXCEPT !.ret = r.ret, !.panic = r.panic]
    /\ UNCHANGED <<MaxStackDepth, slices, thr>>

CallNew(e) ==
    Finish(New(e, ClientStack), [NoCall EXCEPT !.op = "New", !.a = e])

CallWrap(e, skip) ==
    Finish(Wrap(e, skip, ClientStack),
           [NoCall EXCEPT !.op = "Wrap", !.a = e, !.skip = skip])

CallWrapPrefix(e, prefix, skip) ==
    Finish(WrapPrefix(e, prefix, skip, ClientStack),
           [NoCall EXCEPT !.op = "WrapPrefix", !.a = e, !.pfx = prefix, !.skip = skip,
                          !.msg = IF IsError(e) THEN Error(e).str ELSE FormatV(e)])

CallErrorf(msg) ==
    Finish(Errorf(msg, ClientStack), [NoCall EXCEPT !.op = "Errorf", !.msg = msg])

CallUnwrap(e) ==
    Finish(Unwrap(e), [NoCall EXCEPT !.op = "Unwrap", !.a = e])

CallIs(a, b) ==
    /\ last' = [NoCall EXCEPT !.op = "Is", !.a = a, !.b = b, !.res = Is(a, b),
                              !.panic = (Is(a, b) = "panic")]
    /\ UNCHANGED <<heap, errs, MaxStackDepth, slices, thr>>

CallError(n) ==
    /\ last' = [NoCall EXCEPT !.op = "Error", !.a = Ann(n), !.str = Error(Ann(n)).str,
                              !.panic = Error(Ann(n)).panic]
    /\ UNCHANGED <<heap, errs, MaxStackDepth, slices, thr>>

CallStackFrames(n) ==
    LET r == StackFrames(n)
    IN  /\ heap' = r.heap
        /\ slices' = r.slices
        /\ last' = [NoCall EXCEPT !.op = "StackFrames", !.a = Ann(n),
                                  !.was = heap[n].frames, !.fr = r.frames,
                                  !.nres = r.nres]
        /\ UNCHANGED <<errs, MaxStackDepth, thr>>

\* The embedding application assigns the package variable.
SetMaxStackDepth(d) ==
    /\ d # MaxStackDepth
    /\ MaxStackDepth' = d
    /\ last' = [NoCall EXCEPT !.op = "SetMaxStackDepth"]
    /\ UNCHANGED <<heap, errs, slices, thr>>

\* ---------------------------------------------------------------- runs

NoThreads == <<>>

\* A client with two errors of its own, of the same text.
InitSeq ==
    /\ heap = <<>>
    /\ errs = <<ClientMsg, ClientMsg>>
    /\ MaxStackDepth = DefaultMaxStackDepth
    /\ slices = <<>>
    /\ last = NoCall
    /\ thr = NoThreads

\* Construction, unwrapping and comparison.
Init == InitSeq

Next ==
    \/ \E e \in Values : CallNew(e)
    \/ \E e \in Values : CallWrap(e, 0)
    \/ \E e \in Errors \cup {Nil} : CallUnwrap(e)
    \/ \E a, b \in Errors \cup {Nil} : CallIs(a, b)
    \/ CallErrorf(<<"f">>)

Spec == Init /\ [][Next]_vars

\* The annotated errors the client holds.
Annotated == {Ann(i) : i \in DOMAIN heap}

\* Prefixes: the client wraps one of its errors, and what it got back, with
\* prefixes and reads the messages.
Prefixes == {<<>>, <<"A">>, <<"B">>}

NextPrefix ==
    \/ \E e \in {Plain(1)} \cup Annotated : CallNew(e)
    \/ \E e \in {Plain(1), NilPtr} \cup Annotated, p \in Prefixes : CallWrapPrefix(e, p, 0)
    \/ \E n \in DOMAIN heap : CallError(n)

SpecPrefix == Init /\ [][NextPrefix]_vars

\* Stacks: the client changes MaxStackDepth between constructions, wraps at
\* several skips and reads the frames.
Depths == {-1, 0, 1, DefaultMaxStackDepth}
Skips == {-1, 0, 2}

NextStack ==
    \/ \E d \in Depths : SetMaxStackDepth(d)
    \/ CallNew(Plain(1))
    \/ \E e \in {Plain(1), NilPtr} \cup Annotated, skip \in Skips : CallWrap(e, skip)
    \/ \E n \in DOMAIN heap : CallStackFrames(n)

SpecStack == Init /\ [][NextStack]_vars

\* ---------------------------------------------------------------- goroutines

\* Goroutines that call StackFrames() or Stack() on the error at address 1
\* with no synchronisation, one statement of StackFrames at a time.
Threads == 1..MaxThreads

Idle == [pc |-> "idle", op |-> "none", i |-> 0, fr |-> NilFrames, out |-> <<>>]

\* The goroutine enters err.StackFrames(), directly or from err.Stack().
Begin(t, op) ==
    /\ thr[t].pc = "idle"
    /\ thr' = [thr EXCEPT ![t].pc = "check", ![t].op = op]
    /\ UNCHANGED <<heap, errs, MaxStackDepth, slices, last>>

\* if err.frames == nil {
Check(t) ==
    /\ thr[t].pc = "check"
    /\ thr' = [thr EXCEPT ![t].pc = IF heap[1].frames = NilFrames THEN "make" ELSE "return"]
    /\ UNCHANGED <<heap, errs, MaxStackDepth, slices, last>>

\* err.frames = make([]StackFrame, len(err.stack))
MakeSlice(t) ==
    /\ thr[t].pc = "make"
    /\ slices' = Append(slices, [i \in 1..Len(heap[1].stack) |-> ZeroFrame])
    /\ heap' = [heap EXCEPT ![1].frames = Len(slices) + 1]
    /\ thr' = [thr EXCEPT ![t].pc = IF heap[1].stack = <<>> THEN "return" ELSE "fill",
                          ![t].i = 1]
    /\ UNCHANGED <<errs, MaxStackDepth, last>>

\* for i, pc := range err.stack { err.frames[i] = NewStackFrame(pc) }
Fill(t) ==
    /\ thr[t].pc = "fill"
    /\ slices' = [slices EXCEPT ![heap[1].frames][thr[t].i] =
                                    NewStackFrame(heap[1].stack[thr[t].i])]
    /\ thr' = [thr EXCEPT ![t].pc = IF thr[t].i = Len(heap[1].stack) THEN "return" ELSE "fill",
                          ![t].i = thr[t].i + 1]
    /\ UNCHANGED <<heap, errs, MaxStackDepth, last>>

\* return err.frames: StackFrames() hands the slice to its caller, which for
\* Stack() is the loop `for _, frame := range err.StackFrames()`.
Return(t) ==
    /\ thr[t].pc = "return"
    /\ LET f == heap[1].frames
       IN  thr' = [thr EXCEPT
                ![t].fr = f,
                ![t].out = IF thr[t].op = "StackFrames" THEN slices[f] ELSE <<>>,
                ![t].i = 1,
                ![t].pc = IF thr[t].op = "StackFrames" \/ slices[f] = <<>>
                          THEN "done" ELSE "range"]
    /\ UNCHANGED <<heap, errs, MaxStackDepth, slices, last>>

\* buf.WriteString(frame.String()) for the next frame of the slice.
Range(t) ==
    /\ thr[t].pc = "range"
    /\ thr' = [thr EXCEPT
            ![t].out = Append(thr[t].out, slices[thr[t].fr][thr[t].i]),
            ![t].i = thr[t].i + 1,
            ![t].pc = IF thr[t].i = Len(slices[thr[t].fr]) THEN "done" ELSE "range"]
    /\ UNCHANGED <<heap, errs, MaxStackDepth, slices, last>>

\* One error, made by New under some MaxStackDepth, shared by the goroutines.
InitConc ==
    /\ \E d \in 0..Len(ClientStack) :
           heap = <<Construct(Plain(1), Take(ClientStack, d))>>
    /\ errs = <<ClientMsg, ClientMsg>>
    /\ MaxStackDepth = DefaultMaxStackDepth
    /\ slices = <<>>
    /\ last = NoCall
    /\ thr = [t \in Threads |-> Idle]

NextConc ==
    \/ \E t \in Threads, op \in {"StackFrames", "Stack"} : Begin(t, op)
    \/ \E t \in Threads : Check(t)
    \/ \E t \in Threads : MakeSlice(t)
    \/ \E t \in Threads : Fill(t)
    \/ \E t \in Threads : Return(t)
    \/ \E t \in Threads : Range(t)

SpecConc == InitConc /\ [][NextConc]_vars

\* ---------------------------------------------------------------- properties

\* The innermost error of e: e itself unless e is an annotated error.
RECURSIVE Innermost(_)
Innermost(e) == IF e.k = "ann" THEN Innermost(heap[e.i].Err) ELSE e

\* No nil *CommonError is e or lies under it.
NilFree(e) == Innermost(e).k # "nilptr"

\* C1: Wrap of an annotated error returns that very instance, allocates
\* nothing, and leaves the instance's captured stack and underlying error as
\* the first Wrap captured them, whatever the two skips.
WrapIdempotent ==
    [][(last'.op = "Wrap" /\ last'.a.k = "ann") =>
          /\ last'.ret = last'.a
          /\ ~last'.panic
          /\ Len(heap') = Len(heap)
          /\ heap'[last'.a.i].stack = heap[last'.a.i].stack
          /\ heap'[last'.a.i].Err = heap[last'.a.i].Err]_vars

\* An error captured by Wrap at skip -1 is wrapped again at skip 2.
WrapIdempotentWitness ==
    /\ last.op = "Wrap"
    /\ last.a.k = "ann"
    /\ last.skip = 2
    /\ last.ret = last.a
    /\ heap[last.a.i].stack = <<"errors.Wrap", "client", "main">>

\* The text of two WrapPrefix calls at skip 0, the second on the result of
\* the first, on an error whose message was m before the first: it starts
\* with B: A: and ends with m.
ComposedText(A, B, m, t) ==
    /\ StartsWith(t, B \o Sep \o A \o Sep)
    /\ EndsWith(t, m)

\* Two WrapPrefix calls in a row at skip 0, the second on what the first
\* returned, the first on an error that has a message.
TwoPrefixes ==
    /\ last.op = "WrapPrefix" /\ ~last.panic /\ last.skip = 0
    /\ last.a.k \in {"plain", "ann"}
    /\ last'.op = "WrapPrefix" /\ ~last'.panic /\ last'.skip = 0
    /\ last'.a = last.ret

\* An error whose prefix is empty renders as the message of its underlying error.
BareMessage ==
    (last.op = "Error" /\ heap[last.a.i].prefix = <<>>) =>
        last.str = ErrorIn(heap, errs, heap[last.a.i].Err).str

IsByInnermost ==
    (last.op = "Is" /\ NilFree(last.a) /\ NilFree(last.b)) =>
        /\ last.res \in {"true", "false"}
        /\ (last.res = "true") <=>
               (last.a = last.b \/ Innermost(last.a) = Innermost(last.b))
        /\ Is(last.b, last.a) = last.res

CreateUnwrapRoundTrip ==
    /\ (last.op = "New" /\ ~last.panic /\ IsError(last.a)) =>
           (~Unwrap(last.ret).panic /\ Unwrap(last.ret).ret = last.a)
    /\ (last.op = "Unwrap" /\ last.a.k = "plain") =>
           (~last.panic /\ last.ret = last.a)

\* New has just wrapped an annotated error.
CreateUnwrapWitness ==
    /\ last.op = "New"
    /\ ~last.panic
    /\ last.a.k = "ann"
    /\ Unwrap(last.ret).ret = last.a

\* C7 as stated: Unwrap of an annotated error is its innermost error that
\* is not annotated; Unwrap of a plain error is that error.
UnwrapInnermost ==
    (last.op = "Unwrap" /\ NilFree(last.a) /\ last.a.k \in {"ann", "plain"}) =>
        last.ret = Innermost(last.a)

\* C7 amended: Unwrap of an annotated error is its direct underlying error,
\* which is the innermost one when that underlying error is not annotated;
\* Unwrap of a plain error is that error.
UnwrapOneLevel ==
    /\ (last.op = "Unwrap" /\ last.a.k = "ann") =>
           /\ ~last.panic
           /\ last.ret = heap[last.a.i].Err
           /\ heap[last.a.i].Err.k # "ann" => last.ret = Innermost(last.a)
    /\ (last.op = "Unwrap" /\ last.a.k = "plain") => last.ret = last.a

\* Unwrap has been called on an error whose underlying error is annotated.
UnwrapOneLevelWitness ==
    /\ last.op = "Unwrap"
    /\ last.a.k = "ann"
    /\ heap[last.a.i].Err.k = "ann"
    /\ last.ret = heap[last.a.i].Err

\* An error just constructed holds at most MaxStackDepth addresses.
CapturedWithinDepth ==
    Len(heap') > Len(heap) => Len(heap'[Len(heap')].stack) <= MaxStackDepth

\* C5: StackFrames() returns as many frames as addresses were captured (at
\* most the max depth at construction), and once the frames are cached every
\* call returns that same slice and resolves nothing, an empty stack included.
FramesMemoized ==
    [][/\ CapturedWithinDepth
       /\ last'.op = "StackFrames" =>
            /\ last'.fr # NilFrames
            /\ heap'[last'.a.i].frames = last'.fr
            /\ Len(slices'[last'.fr]) = Len(heap'[last'.a.i].stack)
            /\ slices'[last'.fr] = Resolved(heap'[last'.a.i].stack)
            /\ last'.was = NilFrames => last'.nres = Len(heap'[last'.a.i].stack)
            /\ last'.was # NilFrames =>
                 (last'.fr = last'.was /\ last'.nres = 0 /\ slices' = slices)]_vars

\* StackFrames() has been called again on an error with an empty stack.
FramesMemoizedWitness ==
    /\ last.op = "StackFrames"
    /\ last.was # NilFrames
    /\ heap[last.a.i].stack = <<>>
    /\ \E n \in DOMAIN heap : heap[n].frames # NilFrames /\ heap[n].stack # <<>>

\* The length StackFrames() has for the error at n.
FramesLen(n) == Len(StackFrames(n).slices[StackFrames(n).frames])

\* C6 as stated: New, Wrap, WrapPrefix, Unwrap and Errorf return and never
\* panic, whatever the value, the skip and MaxStackDepth.
ConstructionTotal ==
    last.op \in {"New", "Wrap", "WrapPrefix", "Unwrap", "Errorf"} => ~last.panic

\* C8 as stated: no call changes the underlying error, the captured
\* addresses, the prefix or the Error() text of an error that exists.
AnnotatedImmutable ==
    [][\A n \in DOMAIN heap :
          /\ heap'[n].Err = heap[n].Err
          /\ heap'[n].stack = heap[n].stack
          /\ heap'[n].prefix = heap[n].prefix
          /\ ErrorIn(heap', errs', Ann(n)) = ErrorIn(heap, errs, Ann(n))]_vars

\* C9 as stated: every call that has returned read, for each captured
\* address in order, the frame resolved for it.
ConcurrentReadsResolved ==
    \A t \in DOMAIN thr :
        thr[t].pc = "done" => thr[t].out = Resolved(heap[1].stack)

\* C10: an error holds at most the MaxStackDepth in force when New or Wrap
\* made it; no later step changes its captured addresses, and a change of
\* MaxStackDepth changes no error and no StackFrames() length.
DepthReadAtConstruction ==
    [][/\ CapturedWithinDepth
       /\ \A n \in DOMAIN heap : heap'[n].stack = heap[n].stack
       /\ MaxStackDepth' # MaxStackDepth =>
            \A n \in DOMAIN heap : heap'[n] = heap[n] /\ FramesLen(n)' = FramesLen(n)]_vars

\* With MaxStackDepth lowered to 0, the frames of an error captured before
\* are resolved: all three of them.
DepthReadAtConstructionWitness ==
    /\ last.op = "StackFrames"
    /\ last.was = NilFrames
    /\ MaxStackDepth = 0
    /\ Len(slices[last.fr]) = 3

====
